---- MODULE Spec2Model ----
(***************************************************************************)
(* A state-machine model of src/DRAMMIMO.py: getDRAMMIMOChains, the        *)
(* Delayed Rejection Adaptive Metropolis chain generator (Spec), and the   *)
(* quartile step of getDRAMMIMODensities (DensitiesSpec).                  *)
(*                                                                         *)
(* Shape of the modelled problem: p = 1 estimated parameter, N = 2 data    *)
(* sets (the "mode 2" of the module's example), n = 2 points per set.      *)
(*                                                                         *)
(* Numbers.  Python floats are modelled in three ways, by what they hold:  *)
(*  - parameter values (q, q0, q1, q2, chain_q rows, limits) are integers  *)
(*    counting steps of 1/Grid on the real line;                           *)
(*  - the proposal statistics (cov_q, cov_q_inv, qBar, qCov, last_cov_q)   *)
(*    are exact rationals <<num, den>> in grid units;                      *)
(*  - everything the acceptance rule computes (residuals, sums of squares, *)
(*    likelihood ratios, acceptance probabilities) is an IEEE value: a     *)
(*    record [t |-> "fin", v |-> integer], or +inf, -inf, NaN, with the    *)
(*    IEEE rules for arithmetic and comparison on the special values.      *)
(*    Probabilities are fixed-point integers in hundredths.                *)
(* The random stream is an input: a periodic sequence of symbols, each     *)
(* draw (randn, rand, invwishart.rvs) consuming the next symbol.           *)
(***************************************************************************)
EXTENDS Integers, Sequences, FiniteSets, TLC

\* ---------------------------------------------------------------- bounds
\* Period of the random stream (number of symbols before it repeats).
Period == 2
\* Resolution of the parameter grid: the real number 1.0 is Grid steps.
Grid == 5
\* Extra iterations of a short continuation run.
ShortExtra == 2
\* Longest chain slice given to getDRAMMIMODensities.
MaxRows == 5

\* ------------------------------------------------------- program constants
\* Adaptive interval (line 152).
ko == 100
\* Hard-coded checkpoint interval of the sampling loop (line 203).
SaveEvery == 1000

\* ------------------------------------------------------------ IEEE values
Fin(v) == [t |-> "fin", v |-> v]
PINF == [t |-> "inf", v |-> 1]
NINF == [t |-> "inf", v |-> -1]
NAN == [t |-> "nan", v |-> 0]

IsFin(a) == a.t = "fin"
IsNaN(a) == a.t = "nan"
Sgn(a) == IF a.v > 0 THEN 1 ELSE IF a.v < 0 THEN -1 ELSE 0
InfOf(s) == IF s > 0 THEN PINF ELSE NINF

\* Division truncating toward zero, for fixed-point results.
TruncDiv(a, b) == IF a >= 0 THEN a \div b ELSE -((-a) \div b)

\* a + b
FAdd(a, b) ==
    IF IsNaN(a) \/ IsNaN(b) THEN NAN
    ELSE IF IsFin(a) /\ IsFin(b) THEN Fin(a.v + b.v)
    ELSE IF IsFin(a) THEN b
    ELSE IF IsFin(b) THEN a
    ELSE IF a.v = b.v THEN a ELSE NAN

FNeg(a) == IF IsFin(a) THEN Fin(-a.v) ELSE IF IsNaN(a) THEN NAN ELSE InfOf(-a.v)

\* a - b
FSub(a, b) == FAdd(a, FNeg(b))

\* a * b, the finite product divided by scale (1 for plain numbers, 100 for
\* two probabilities in hundredths).
FMul(a, b, scale) ==
    IF IsNaN(a) \/ IsNaN(b) THEN NAN
    ELSE IF IsFin(a) /\ IsFin(b) THEN Fin(TruncDiv(a.v * b.v, scale))
    ELSE IF Sgn(a) = 0 \/ Sgn(b) = 0 THEN NAN
    ELSE InfOf(Sgn(a) * Sgn(b))

\* a / b of numpy float64 scalars: x/0 is +-inf, 0/0 is NaN (a warning, no
\* exception).  The finite quotient is multiplied by scale.
FDiv(a, b, scale) ==
    IF IsNaN(a) \/ IsNaN(b) THEN NAN
    ELSE IF IsFin(a) /\ IsFin(b)
         THEN IF b.v = 0
              THEN (IF a.v = 0 THEN NAN ELSE InfOf(Sgn(a)))
              ELSE Fin(TruncDiv(a.v * scale, b.v))
    ELSE IF IsFin(a) THEN Fin(0)
    ELSE IF IsFin(b) THEN InfOf(Sgn(a) * (IF b.v < 0 THEN -1 ELSE 1))
    ELSE NAN

\* a < b and a > b: every comparison with NaN is False.
FLt(a, b) ==
    IF IsNaN(a) \/ IsNaN(b) THEN FALSE
    ELSE IF IsFin(a) /\ IsFin(b) THEN a.v < b.v
    ELSE IF IsFin(a) THEN b.v > 0
    ELSE IF IsFin(b) THEN a.v < 0
    ELSE a.v < b.v

FGt(a, b) == FLt(b, a)

\* Python's builtin min(1, x): x if x < 1 else 1, so min(1, NaN) is 1.
\* x is a probability in hundredths.
PyMin1(x) == IF FLt(x, Fin(100)) THEN x ELSE Fin(100)

\* np.exp(-0.5*d) in hundredths.  Below the resolution the result is 0 (the
\* float underflows for d > 1490); the growth for negative d is capped.
ExpTable(d) ==
    IF d >= 10 THEN 0
    ELSE IF d <= -9 THEN 9002
    ELSE CASE d = 9 -> 1 [] d = 8 -> 2 [] d = 7 -> 3 [] d = 6 -> 5
           [] d = 5 -> 8 [] d = 4 -> 14 [] d = 3 -> 22 [] d = 2 -> 37
           [] d = 1 -> 61 [] d = 0 -> 100 [] d = -1 -> 165 [] d = -2 -> 272
           [] d = -3 -> 448 [] d = -4 -> 739 [] d = -5 -> 1218
           [] d = -6 -> 2009 [] d = -7 -> 3312 [] d = -8 -> 5460

ExpNegHalf(d) ==
    IF IsNaN(d) THEN NAN
    ELSE IF IsFin(d) THEN Fin(ExpTable(d.v))
    ELSE IF d.v > 0 THEN Fin(0) ELSE PINF

\* ------------------------------------------------------------- rationals
RECURSIVE Gcd(_, _)
Gcd(a, b) == IF b = 0 THEN a ELSE Gcd(b, a % b)

Abs(a) == IF a < 0 THEN -a ELSE a

\* The rational num/den in lowest terms, den > 0.
Rat(num, den) ==
    LET s == IF den < 0 THEN -1 ELSE 1
        g == Gcd(Abs(num), Abs(den))
    IN  <<(s * num) \div g, (s * den) \div g>>

RInt(i) == <<i, 1>>

RAdd(a, b) ==
    LET g == Gcd(a[2], b[2])
    IN  Rat(a[1] * (b[2] \div g) + b[1] * (a[2] \div g), (a[2] \div g) * b[2])

RSub(a, b) == RAdd(a, <<-b[1], b[2]>>)

\* a * b, cancelling across before multiplying.
RMul(a, b) ==
    LET g1 == Gcd(Abs(a[1]), b[2])
        g2 == Gcd(Abs(b[1]), a[2])
    IN  Rat((a[1] \div g1) * (b[1] \div g2), (a[2] \div g2) * (b[2] \div g1))

\* floor(a) for a >= 0.
RFloor(a) == a[1] \div a[2]

\* ------------------------------------------------------------------ state
VARIABLES
    pc,             \* "idle", "called", "loop", "returned", "error", "fatal"
    run,            \* number of calls of getDRAMMIMOChains made so far
    data,           \* the argument data, by what the validation reads of it
    model,          \* the caller's model: where its response is NaN or inf
    modelParams,    \* values, lowerLimits, upperLimits
    DRAMParams,     \* numDRAMIterationsDone, numDRAMIterations,
                    \* numIterationsSave, previousResults
    stream,         \* the random stream, one symbol per draw
    pos,            \* position of the next draw in the stream's period
    draws,          \* number of random draws made by the current call
    k,              \* loop counter
    q, err,         \* best estimate and its residuals (n x N)
    cov_q, cov_q_inv, cov_err, cov_err_inv,
    prior,          \* psi_s, nu_s
    qBar, qCov, R1, R2,
    chain_q, last_cov_q, chain_cov_err,
    dr,             \* what the last iteration's Delayed Rejection did
    adaptedAt,      \* iterations of the current call that committed cov_q
    history,        \* adaptation commits over all calls on this chain
    saves,          \* checkpoint writes of the current call: loop counters
    store,          \* the checkpoint last written
    result,         \* what the call returned
    qChain,         \* the chain slice getDRAMMIMODensities is given
    dens            \* what getDRAMMIMODensities computed

vars == <<pc, run, data, model, modelParams, DRAMParams, stream, pos, draws,
          k, q, err, cov_q, cov_q_inv, cov_err, cov_err_inv, prior, qBar,
          qCov, R1, R2, chain_q, last_cov_q, chain_cov_err, dr, adaptedAt,
          history, saves, store, result, qChain, dens>>

\* ------------------------------------------------------------ the problem
\* The data sets and the points of each.
DataSets == 1 .. 2
Points == 1 .. 2
N == Cardinality(DataSets)
n == Cardinality(Points)

\* data['xdata'][i] and data['ydata'][i].
xdata == <<<<1, 2>>, <<1, 2>>>>
ydata == <<<<1, 3>>, <<0, 1>>>>

\* getModelResponse: a*xdata + b, with b = 0 passed through extra; the
\* caller's model returns NaN or inf for the parameter values listed in
\* model (a pole or a domain error of the response of data set 1).
getModelResponse(theta, i, r) ==
    IF i = 1 /\ r = 1 /\ theta \in model.nanAt THEN NAN
    ELSE IF i = 1 /\ r = 1 /\ theta \in model.infAt THEN PINF
    ELSE Fin(theta * xdata[i][r])

\* getModelResponseError: modelResponse - ydata.
getModelResponseError(theta, i, r) ==
    FSub(getModelResponse(theta, i, r), Fin(ydata[i][r]))

\* for i: err[:,i] = model['errFun'][i](q, xdata[i], ydata[i], extra[i])
EvalErr(theta) ==
    [r \in Points |-> [i \in DataSets |-> getModelResponseError(theta, i, r)]]

\* np.tile(float('inf'), (n, N))
InfTile == [r \in Points |-> [i \in DataSets |-> PINF]]

\* np.any(np.isnan(e))
AnyNaN(e) == \E r \in Points : \E i \in DataSets : IsNaN(e[r][i])

AllFinite(e) == \A r \in Points : \A i \in DataSets : IsFin(e[r][i])

RECURSIVE FSum(_, _)
\* f[1] + ... + f[m]
FSum(f, m) == IF m = 0 THEN Fin(0) ELSE FAdd(FSum(f, m - 1), f[m])

\* np.dot(e.T, e)
Gram(e) ==
    [i \in DataSets |-> [j \in DataSets |->
        FSum([r \in Points |-> FMul(e[r][i], e[r][j], 1)], n)]]

\* np.trace(np.dot(np.dot(e.T, e), cinv))
SumSquares(e, cinv) ==
    LET G == Gram(e)
        diag == [i \in DataSets |->
                    FSum([j \in DataSets |-> FMul(G[i][j], Fin(cinv[j][i]), 1)], N)]
    IN  FSum(diag, N)

\* The finite matrix as integers.
Ints(m) == [i \in DataSets |-> [j \in DataSets |-> m[i][j].v]]

MatAdd(a, b) == [i \in DataSets |-> [j \in DataSets |-> a[i][j] + b[i][j]]]

Det(m) == m[1][1] * m[2][2] - m[1][2] * m[2][1]

\* la.inv of a 2 x 2 matrix with Det(m) # 0.
Inv(m) ==
    <<<<TruncDiv(m[2][2], Det(m)), TruncDiv(-m[1][2], Det(m))>>,
      <<TruncDiv(-m[2][1], Det(m)), TruncDiv(m[1][1], Det(m))>>>>

Zeros == <<<<0, 0>>, <<0, 0>>>>

\* ------------------------------------------------------ the random stream
Symbols == 0 .. 2

\* The symbol the i-th draw from now consumes.
Sym(i) == stream[(pos + i) % Period]

\* np.random.randn(1): a standard normal variate.
Randn(s) == s - 1

\* np.random.rand(): a uniform variate of [0, 1), in hundredths.
Rand(s) == <<0, 50, 99>>[s + 1]

\* st.invwishart.rvs: a symmetric positive definite N x N matrix.
Wishart(s) == << <<<<1, 0>>, <<0, 1>>>>,
                 <<<<2, 1>>, <<1, 1>>>>,
                 <<<<1, -1>>, <<-1, 2>>>> >>[s + 1]

\* ------------------------------------------------------ proposal matrices
RECURSIVE Bisect(_, _, _)
\* The largest r of lo .. hi with r*r <= x.
Bisect(lo, hi, x) ==
    IF lo >= hi THEN lo
    ELSE LET mid == (lo + hi + 1) \div 2
         IN  IF mid * mid <= x THEN Bisect(mid, hi, x) ELSE Bisect(lo, mid - 1, x)

\* la.cholesky(c) of the 1 x 1 matrix c > 0: its square root, in hundredths
\* of a grid step.
Cholesky(c) ==
    Bisect(0, 4000, (c[1] \div c[2]) * 10000 + ((c[1] % c[2]) * 10000) \div c[2])

\* Adaptive scale sp = 2.38/np.sqrt(p), for p = 1.
sp == <<238, 100>>

\* randomWalk*sp
TimesSp(rw) == (rw * sp[1]) \div sp[2]

\* randomWalk/1.0 and randomWalk/5.0 (also randomWalk*sp/5.0 = R1/5.0).
Stage1Walk(rw) == rw
Stage2Walk(r1) == r1 \div 5

\* 1.0/cov_q for p = 1.
Reciprocal(c) == <<c[2], c[1]>>

\* np.diag(((q!=0)*(0.05*q)**2+(q==0)*1.0)[:,0])
InitialCov(theta) == IF theta # 0 THEN Rat(theta * theta, 400) ELSE RInt(Grid * Grid)

\* ------------------------------------------------------ Delayed Rejection
\* The bounds test with the lower limits forgotten.
OutOfBoundsAboveOnly(c) == c > modelParams.upperLimits

\* any(c < lowerLimits) or any(c > upperLimits)
OutOfBounds(c) == c < modelParams.lowerLimits \/ c > modelParams.upperLimits

\* q0 + np.dot(R.T, np.random.randn(len(q))), on the parameter grid.
Propose(q0, R, z) == q0 + TruncDiv(R * z, 100)

\* The acceptance test with >= for >.
AcceptOnEqual(alpha, u) == FGt(alpha, Fin(u)) \/ alpha = Fin(u)

\* alpha > np.random.rand()
Accept(alpha, u) == FGt(alpha, Fin(u))

\* np.isnan applied to a candidate's residuals.
RejectedResidual(e) == AnyNaN(e)

\* np.exp(-0.5*np.dot(np.dot((a-b).T, cov_q_inv), (a-b)))
Jump(a, b) == ExpNegHalf(Fin(RFloor(RMul(RInt((a - b) * (a - b)), cov_q_inv))))

\* Lines 217-245: the first stage.
Stage1(q0, err0, z) ==
    LET q1 == Propose(q0, R1, z)
        oob == OutOfBounds(q1)
        raw == EvalErr(q1)
        bad == ~oob /\ RejectedResidual(raw)
        SS0 == SumSquares(err0, cov_err_inv)
        err1 == IF oob \/ bad THEN InfTile ELSE raw
        SS1 == IF oob \/ bad THEN PINF ELSE SumSquares(err1, cov_err_inv)
        pi10 == IF oob \/ bad THEN Fin(0) ELSE ExpNegHalf(FSub(SS1, SS0))
    IN  [q1 |-> q1, oob |-> oob, raw |-> raw, err1 |-> err1, SS0 |-> SS0,
         SS1 |-> SS1, pi10 |-> pi10, alpha10 |-> PyMin1(pi10)]

\* Lines 259-299: the second stage, after the first stage s1 was rejected.
Stage2(q0, s1, z) ==
    LET q2 == Propose(q0, R2, z)
        oob == OutOfBounds(q2)
        raw == EvalErr(q2)
        bad == ~oob /\ RejectedResidual(raw)
        err2 == IF oob \/ bad THEN InfTile ELSE raw
        SS2 == IF oob \/ bad THEN PINF ELSE SumSquares(err2, cov_err_inv)
        pi20 == ExpNegHalf(FSub(SS2, s1.SS0))
        J12 == Jump(s1.q1, q2)
        J10 == Jump(s1.q1, q0)
        pi12 == ExpNegHalf(FSub(s1.SS1, SS2))
        alpha12 == PyMin1(pi12)
        ratio == FDiv(FMul(FDiv(FMul(pi20, J12, 100), J10, 100),
                           FSub(Fin(100), alpha12), 100),
                      FSub(Fin(100), s1.alpha10), 100)
        alpha210 == IF oob \/ bad THEN Fin(0)
                    ELSE IF alpha12 = Fin(100) THEN Fin(0)
                    ELSE PyMin1(ratio)
    IN  [q2 |-> q2, oob |-> oob, raw |-> raw, err2 |-> err2, SS2 |-> SS2,
         alpha210 |-> alpha210]

\* What the second stage leaves when it is not entered.
NoStage2 ==
    [q2 |-> 0, oob |-> FALSE, raw |-> InfTile, err2 |-> InfTile, SS2 |-> PINF,
     alpha210 |-> Fin(0)]

\* The two decisions with the second candidate kept even when it is rejected.
DecideKeepingSecond(s1, acc1, s2) ==
    [q0 |-> q, q1 |-> s1.q1, oob1 |-> s1.oob, raw1 |-> s1.raw,
     alpha10 |-> s1.alpha10, acc1 |-> acc1,
     stage2 |-> ~acc1, q2 |-> s2.q2, oob2 |-> s2.oob, raw2 |-> s2.raw,
     alpha210 |-> s2.alpha210,
     acc2 |-> ~acc1 /\ Accept(s2.alpha210, Rand(Sym(3))),
     q |-> IF acc1 THEN s1.q1 ELSE s2.q2,
     err |-> IF acc1 THEN s1.err1 ELSE s2.err2,
     draws |-> IF acc1 THEN 2 ELSE 4]

\* Lines 248-307: the two decisions, given the first stage s1, whether it
\* is accepted, and the second stage s2 (entered only when it is not).
Decide(s1, acc1, s2) ==
    [q0 |-> q, q1 |-> s1.q1, oob1 |-> s1.oob, raw1 |-> s1.raw,
     alpha10 |-> s1.alpha10, acc1 |-> acc1,
     stage2 |-> ~acc1, q2 |-> s2.q2, oob2 |-> s2.oob, raw2 |-> s2.raw,
     alpha210 |-> s2.alpha210,
     acc2 |-> ~acc1 /\ Accept(s2.alpha210, Rand(Sym(3))),
     q |-> IF acc1 THEN s1.q1
           ELSE IF Accept(s2.alpha210, Rand(Sym(3))) THEN s2.q2 ELSE q,
     err |-> IF acc1 THEN s1.err1
             ELSE IF Accept(s2.alpha210, Rand(Sym(3))) THEN s2.err2 ELSE err,
     draws |-> IF acc1 THEN 2 ELSE 4]

\* Lines 213-307: one Delayed Rejection, from the state (q, err), drawing
\* from the stream: randn and rand for the first stage and, when it is
\* rejected, randn and rand for the second.  draws counts the variates.
DelayedRejection ==
    CHOOSE d \in
        UNION { { Decide(s1, Accept(s1.alpha10, Rand(Sym(1))), s2) :
                    s2 \in { IF Accept(s1.alpha10, Rand(Sym(1))) THEN NoStage2
                             ELSE Stage2(q, s1, Randn(Sym(2))) } } :
                s1 \in { Stage1(q, err, Randn(Sym(0))) } } : TRUE

\* ---------------------------------------------------- Adaptive Metropolis
RECURSIVE SumRange(_, _, _)
\* c[lo] + ... + c[hi - 1], summed by halves.
SumRange(c, lo, hi) ==
    IF hi <= lo THEN 0
    ELSE IF hi = lo + 1 THEN c[lo]
    ELSE SumRange(c, lo, (lo + hi) \div 2) + SumRange(c, (lo + hi) \div 2, hi)

\* c[0] + ... + c[m-1]
SumRows(c, m) == SumRange(c, 0, m)

\* c[0]^2 + ... + c[m-1]^2
SumSqRows(c, m) == SumRange([i \in 0 .. m - 1 |-> c[i] * c[i]], 0, m)

\* np.mean(c[0:m,:], 0)
BatchMean(c, m) == Rat(SumRows(c, m), m)

\* np.cov(c[0:m,:].T): the sample covariance, divisor m - 1.
BatchCov(c, m) ==
    Rat(m * SumSqRows(c, m) - SumRows(c, m) * SumRows(c, m), m * (m - 1))

\* The running mean divided by the old count.
NextMeanOldCount(kk, qBarOld, theta) ==
    RMul(RAdd(RMul(RInt(kk), qBarOld), RInt(theta)), <<1, kk>>)

\* qBar = (k*qBarOld+q)/(k+1)
NextMean(kk, qBarOld, theta) ==
    RMul(RAdd(RMul(RInt(kk), qBarOld), RInt(theta)), <<1, kk + 1>>)

\* qCov = (k-1.0)/k*qCovOld
\*        + 1.0/k*(k*qBarOld*qBarOld.T - (k+1)*qBar*qBar.T + q*q.T)
NextCov(kk, qCovOld, qBarOld, qBarNew, theta) ==
    RAdd(RMul(<<kk - 1, kk>>, qCovOld),
         RMul(<<1, kk>>,
              RAdd(RSub(RMul(RInt(kk), RMul(qBarOld, qBarOld)),
                        RMul(RInt(kk + 1), RMul(qBarNew, qBarNew))),
                   RInt(theta * theta))))

\* The adaptation test on the iteration index alone.
AdaptIgnoringMo(kk, mo) == kk >= ko /\ kk % ko = 0

\* k >= ko and np.mod(k+Mo, ko) == 0: cov_q is committed at the end of
\* iteration kk of a call that started at mo.
AdaptNow(kk, mo) == kk >= ko /\ (kk + mo) % ko = 0

\* np.mod(k, 1000) == 0: the loop writes a checkpoint before iteration kk.
SaveNow(kk) == kk % SaveEvery = 0

\* The row index taken one too low.
RowBefore(kk) == kk - 1

\* The row index the loop records iteration kk at.
RowOf(kk) == kk

\* ------------------------------------------------------------ the call
Mo == DRAMParams.numDRAMIterationsDone
M == DRAMParams.numDRAMIterations
previousResults == DRAMParams.previousResults

\* The set counts compared between xdata and ydata only.
UnequalFirstTwo == data.sets[1] # data.sets[2]

\* Lines 72-76, 79-83 and 88-90: the three validations.
UnequalSets == \E i \in 1 .. Len(data.sets) : data.sets[i] # data.sets[1]
UnequalPoints ==
    \E i \in 1 .. data.sets[1] : \E j \in 1 .. 2 : data.points[i][j] # data.points[1][1]
ChainMismatch == Mo # 1 /\ Mo # previousResults.rows

Invalid == UnequalSets \/ UnequalPoints \/ ChainMismatch

\* What np.savez_compressed writes and the call returns.
Snapshot ==
    [prior |-> prior, chain_q |-> chain_q, last_cov_q |-> last_cov_q,
     chain_cov_err |-> chain_cov_err]

NoResults ==
    [prior |-> [psi_s |-> Zeros, nu_s |-> 0], chain_q |-> <<>>,
     last_cov_q |-> RInt(0), chain_cov_err |-> <<>>]

NoDR ==
    [k |-> 0, q0 |-> 0, q1 |-> 0, oob1 |-> FALSE, bad1 |-> FALSE,
     alpha10 |-> Fin(0), acc1 |-> FALSE, stage2 |-> FALSE, q2 |-> 0,
     oob2 |-> FALSE, bad2 |-> FALSE, alpha210 |-> Fin(0), acc2 |-> FALSE,
     draws |-> 0]

ZeroErr == [r \in Points |-> [i \in DataSets |-> Fin(0)]]

\* ---------------------------------------------------- getDRAMMIMODensities
\* numIterations = qChain.shape[0]
numIterations == Cardinality(DOMAIN qChain)

\* np.sort(c): position j holds the value v with fewer than j+1 rows below
\* it and more than j rows not above it.
Sort(c) ==
    [j \in DOMAIN c |->
        CHOOSE v \in {c[i] : i \in DOMAIN c} :
            /\ Cardinality({i \in DOMAIN c : c[i] < v}) <= j
            /\ j < Cardinality({i \in DOMAIN c : c[i] <= v})]

\* int(np.floor((numIterations+1)/4.0))
QuartileIndex1(m) == (m + 1) \div 4

\* int(np.floor((numIterations+1)/4.0*3.0))
QuartileIndex3(m) == (3 * (m + 1)) \div 4

\* a[i] raises IndexError unless -len(a) <= i < len(a).
IndexError(a, i) == i < -Cardinality(DOMAIN a) \/ i >= Cardinality(DOMAIN a)

\* a[i] of Python: a negative i counts from the end.
At(a, i) == IF i < 0 THEN a[Cardinality(DOMAIN a) + i] ELSE a[i]

\* (1-f)*a[i-1] + f*a[i] with f = x/4.0 - i, in quarters; x is
\* numIterations+1 for the lower quartile and three times that for the upper.
Interpolate(a, i, x) == (4 - (x - 4 * i)) * At(a, i - 1) + (x - 4 * i) * At(a, i)

\* Lines 372-398 for one chain: the quartile positions, whether reading them
\* raises, whether one of them is negative, q3 - q1 (in quarters), and the
\* bandwidth rule it selects.  The kernel sums of lines 399-401 are left out.
Quartiles(c) ==
    LET m == Cardinality(DOMAIN c)
        chainSorted == Sort(c)
        i1 == QuartileIndex1(m)
        i3 == QuartileIndex3(m)
        raises == \E i \in {i1 - 1, i1, i3 - 1, i3} : IndexError(chainSorted, i)
        iRange == Interpolate(chainSorted, i3, 3 * (m + 1))
                  - Interpolate(chainSorted, i1, m + 1)
    IN  [status |-> IF raises THEN "IndexError" ELSE "returned",
         n |-> m, i1 |-> i1, i3 |-> i3,
         wrapped |-> i1 - 1 < 0,
         iRange |-> IF raises THEN 0 ELSE iRange,
         sigmaOnly |-> ~raises /\ iRange <= 0]

NoDensities ==
    [status |-> "none", n |-> 0, i1 |-> 0, i3 |-> 0, wrapped |-> FALSE,
     iRange |-> 0, sigmaOnly |-> FALSE]

\* Values of the rows of a chain slice.
ChainValues == 0 .. 2

\* ------------------------------------------------------------- the inputs
ValidData == [sets |-> <<2, 2, 2, 2, 2>>, points |-> <<<<2, 2>>, <<2, 2>>>>]

DataInputs ==
    { ValidData,
      [sets |-> <<2, 2, 2, 1, 2>>, points |-> <<<<2, 2>>, <<2, 2>>>>],
      [sets |-> <<2, 2, 2, 2, 2>>, points |-> <<<<2, 2>>, <<2, 3>>>>] }

\* The caller's model is finite everywhere, or NaN, or infinite, one small
\* step and one large step above the initial value.
ModelInputs ==
    { [nanAt |-> {}, infAt |-> {}],
      [nanAt |-> {1, Grid}, infAt |-> {}],
      [nanAt |-> {}, infAt |-> {1, Grid}] }

\* The initial value inside its limits, and below its lower limit.
ParamInputs ==
    { [values |-> 0, lowerLimits |-> -Grid, upperLimits |-> Grid],
      [values |-> 0, lowerLimits |-> 1, upperLimits |-> Grid] }

\* Totals of a first call: a short run, and one that runs one iteration
\* past its first adaptation (at k = 2*ko - 1).
FirstTargets == {1 + ShortExtra, 2 * ko + 1}

\* Totals of a continuation from rows iterations done: a short one, one
\* whose last iteration is its own first adaptation (k = 2*ko - rows), and
\* one more iteration after a first call that has already adapted.
NextTargets(rows) ==
    IF rows < ko THEN {rows + ShortExtra, 2 * ko - rows + 1} ELSE {rows + 1}

Init ==
    /\ pc = "called"
    /\ run = 1
    /\ data \in DataInputs
    /\ model \in ModelInputs
    /\ modelParams \in ParamInputs
    /\ DRAMParams \in
         { [numDRAMIterationsDone |-> 1, numDRAMIterations |-> m,
            numIterationsSave |-> 2,
            previousResults |-> [empty |-> TRUE, rows |-> 0, res |-> NoResults]]
           : m \in FirstTargets }
    /\ stream \in [0 .. Period - 1 -> Symbols]
    /\ pos = 0
    /\ draws = 0
    /\ k = 0
    /\ q = 0
    /\ err = ZeroErr
    /\ cov_q = RInt(0)
    /\ cov_q_inv = RInt(0)
    /\ cov_err = Zeros
    /\ cov_err_inv = Zeros
    /\ prior = NoResults.prior
    /\ qBar = RInt(0)
    /\ qCov = RInt(0)
    /\ R1 = 0
    /\ R2 = 0
    /\ chain_q = <<>>
    /\ last_cov_q = RInt(0)
    /\ chain_cov_err = <<>>
    /\ dr = NoDR
    /\ adaptedAt = {}
    /\ history = 0
    /\ saves = <<>>
    /\ store = NoResults
    /\ result = NoResults
    /\ qChain = <<>>
    /\ dens = NoDensities

\* Lines 72-92: a validation fails and the call raises ValueError.
Reject ==
    /\ pc = "called"
    /\ Invalid
    /\ pc' = "error"
    /\ UNCHANGED <<run, data, model, modelParams, DRAMParams, stream, pos,
                   draws, k, q, err, cov_q, cov_q_inv, cov_err, cov_err_inv,
                   prior, qBar, qCov, R1, R2, chain_q, last_cov_q,
                   chain_cov_err, dr, adaptedAt, history, saves, store, result,
                   qChain, dens>>

\* Lines 94-191: the state before the first iteration.
Construct ==
    /\ pc = "called"
    /\ ~Invalid
    /\ LET fresh == Mo = 1
           prev == previousResults.res
           last == previousResults.rows - 1
           theta == IF fresh THEN modelParams.values ELSE prev.chain_q[last]
           e == EvalErr(theta)
           cq == IF fresh THEN InitialCov(theta) ELSE prev.last_cov_q
           ce == IF fresh THEN Ints(Gram(e)) ELSE prev.chain_cov_err[last]
           rw == Cholesky(cq)
           \* la.inv and la.cholesky raise on a non-finite, singular or
           \* non-positive matrix; the chain assignment on a shape mismatch.
           fails == \/ fresh /\ ~AllFinite(e)
                    \/ Det(ce) = 0
                    \/ cq[1] <= 0
                    \/ M < Mo
                    \/ ~fresh /\ previousResults.rows # Mo
       IN  IF fails
           THEN /\ pc' = "fatal"
                /\ UNCHANGED <<k, q, err, cov_q, cov_q_inv, cov_err,
                               cov_err_inv, prior, qBar, qCov, R1, R2,
                               chain_q, last_cov_q, chain_cov_err>>
           ELSE /\ pc' = "loop"
                /\ k' = Mo
                /\ q' = theta
                /\ err' = e
                /\ cov_q' = cq
                /\ cov_q_inv' = Reciprocal(cq)
                /\ cov_err' = ce
                /\ cov_err_inv' = Inv(ce)
                /\ prior' = IF previousResults.empty
                            THEN [psi_s |-> Zeros, nu_s |-> 0]
                            ELSE prev.prior
                /\ qBar' = IF fresh THEN RInt(theta)
                           ELSE BatchMean(prev.chain_q, previousResults.rows)
                /\ qCov' = cq
                /\ R1' = Stage1Walk(rw)
                /\ R2' = Stage2Walk(rw)
                /\ chain_q' = [i \in 0 .. M - 1 |->
                                 IF fresh THEN (IF i = 0 THEN theta ELSE 0)
                                 ELSE IF i < Mo THEN prev.chain_q[i] ELSE 0]
                /\ last_cov_q' = cq
                /\ chain_cov_err' = [i \in 0 .. M - 1 |->
                                       IF fresh THEN (IF i = 0 THEN ce ELSE Zeros)
                                       ELSE IF i < Mo THEN prev.chain_cov_err[i]
                                       ELSE Zeros]
    /\ UNCHANGED <<run, data, model, modelParams, DRAMParams, stream, pos,
                   draws, dr, adaptedAt, history, saves, store, result,
                   qChain, dens>>

\* Lines 194-353: one iteration of the sampling loop, k in [Mo, M).
Iterate ==
    /\ pc = "loop"
    /\ k < M
    /\ \E d \in {DelayedRejection} : LET
           \* st.invwishart.rvs(nu_s+n, psi_s+np.dot(err.T,err)) raises on a
           \* scale matrix that is not finite or not positive definite.
           scaleOk == AllFinite(d.err)
                      /\ Det(MatAdd(prior.psi_s, Ints(Gram(d.err)))) > 0
           ce == Wishart(Sym(d.draws))
           batch == k = ko - 1
           recur == k >= ko
           mean == IF batch THEN BatchMean(chain_q', ko)
                   ELSE IF recur THEN NextMean(k, qBar, d.q)
                   ELSE qBar
           cov == IF batch THEN BatchCov(chain_q', ko)
                  ELSE IF recur THEN NextCov(k, qCov, qBar, mean, d.q)
                  ELSE qCov
           commit == AdaptNow(k, Mo)
           rw == Cholesky(cov)
       IN  /\ IF SaveNow(k)
              THEN /\ store' = Snapshot
                   /\ saves' = Append(saves, [at |-> k, final |-> FALSE])
              ELSE UNCHANGED <<store, saves>>
           /\ q' = d.q
           /\ err' = d.err
           /\ dr' = [k |-> k, q0 |-> d.q0, q1 |-> d.q1, oob1 |-> d.oob1,
                     bad1 |-> ~d.oob1 /\ ~AllFinite(d.raw1),
                     alpha10 |-> d.alpha10, acc1 |-> d.acc1,
                     stage2 |-> d.stage2, q2 |-> d.q2, oob2 |-> d.oob2,
                     bad2 |-> d.stage2 /\ ~d.oob2 /\ ~AllFinite(d.raw2),
                     alpha210 |-> d.alpha210, acc2 |-> d.acc2,
                     draws |-> d.draws]
           /\ chain_q' = [chain_q EXCEPT ![RowOf(k)] = d.q]
           /\ last_cov_q' = cov_q
           /\ chain_cov_err' = [chain_cov_err EXCEPT ![RowOf(k)] = cov_err]
           /\ IF ~scaleOk
              THEN /\ pc' = "fatal"
                   /\ pos' = (pos + d.draws) % Period
                   /\ draws' = draws + d.draws
                   /\ UNCHANGED <<k, cov_err, cov_err_inv, qBar, qCov, cov_q,
                                  cov_q_inv, R1, R2, adaptedAt, history>>
              ELSE /\ pos' = (pos + d.draws + 1) % Period
                   /\ draws' = draws + d.draws + 1
                   /\ cov_err' = ce
                   /\ cov_err_inv' = Inv(ce)
                   /\ qBar' = mean
                   /\ qCov' = cov
                   /\ IF ~commit
                      THEN /\ pc' = "loop"
                           /\ k' = k + 1
                           /\ UNCHANGED <<cov_q, cov_q_inv, R1, R2,
                                          adaptedAt, history>>
                      ELSE /\ cov_q' = cov
                           /\ adaptedAt' = adaptedAt \cup {k}
                           /\ history' = history + 1
                           \* la.cholesky raises on cov_q = 0.
                           /\ IF cov[1] <= 0
                              THEN /\ pc' = "fatal"
                                   /\ UNCHANGED <<k, cov_q_inv, R1, R2>>
                              ELSE /\ pc' = "loop"
                                   /\ k' = k + 1
                                   /\ cov_q_inv' = Reciprocal(cov)
                                   /\ R1' = TimesSp(rw)
                                   /\ R2' = Stage2Walk(TimesSp(rw))
    /\ UNCHANGED <<run, data, model, modelParams, DRAMParams, stream, prior,
                   result, qChain, dens>>

\* Lines 355-361: the loop is over; the final checkpoint and the return.
Return ==
    /\ pc = "loop"
    /\ k = M
    /\ pc' = "returned"
    /\ store' = Snapshot
    /\ saves' = Append(saves, [at |-> k, final |-> TRUE])
    /\ result' = Snapshot
    /\ UNCHANGED <<run, data, model, modelParams, DRAMParams, stream, pos,
                   draws, k, q, err, cov_q, cov_q_inv, cov_err, cov_err_inv,
                   prior, qBar, qCov, R1, R2, chain_q, last_cov_q,
                   chain_cov_err, dr, adaptedAt, history, qChain, dens>>

\* Lines 535-541 (the example's 2nd round): the caller continues the chain
\* from the returned results, naming the iterations done (rightly, or one
\* too many) and a new total.
Continue ==
    /\ pc = "returned"
    /\ run = 1
    /\ \E mo \in {M, M + 1} :
         \E m \in (IF mo = M THEN NextTargets(M) ELSE {mo + ShortExtra}) :
            DRAMParams' = [numDRAMIterationsDone |-> mo,
                           numDRAMIterations |-> m,
                           numIterationsSave |-> DRAMParams.numIterationsSave,
                           previousResults |->
                               [empty |-> FALSE, rows |-> M, res |-> result]]
    /\ pc' = "called"
    /\ run' = 2
    /\ draws' = 0
    /\ saves' = <<>>
    /\ adaptedAt' = {}
    /\ dr' = NoDR
    /\ result' = NoResults
    /\ UNCHANGED <<data, model, modelParams, stream, pos, k, q, err, cov_q,
                   cov_q_inv, cov_err, cov_err_inv, prior, qBar, qCov, R1, R2,
                   chain_q, last_cov_q, chain_cov_err, history, store,
                   qChain, dens>>

Next == Reject \/ Construct \/ Iterate \/ Return \/ Continue

Spec == Init /\ [][Next]_vars

\* ------------------------------------------- getDRAMMIMODensities, alone
\* A call of getDRAMMIMODensities on a chain slice of 1 .. MaxRows rows; the
\* sampler is idle.
DensitiesInit ==
    /\ pc = "densities"
    /\ qChain \in UNION { [0 .. m - 1 -> ChainValues] : m \in 1 .. MaxRows }
    /\ dens = NoDensities
    /\ run = 1
    /\ data = ValidData
    /\ model = [nanAt |-> {}, infAt |-> {}]
    /\ modelParams = [values |-> 0, lowerLimits |-> -Grid, upperLimits |-> Grid]
    /\ DRAMParams =
         [numDRAMIterationsDone |-> 1, numDRAMIterations |-> 1,
          numIterationsSave |-> 2,
          previousResults |-> [empty |-> TRUE, rows |-> 0, res |-> NoResults]]
    /\ stream = [i \in 0 .. Period - 1 |-> 0]
    /\ pos = 0 /\ draws = 0 /\ k = 0 /\ q = 0
    /\ err = ZeroErr
    /\ cov_q = RInt(0) /\ cov_q_inv = RInt(0)
    /\ cov_err = Zeros /\ cov_err_inv = Zeros
    /\ prior = NoResults.prior
    /\ qBar = RInt(0) /\ qCov = RInt(0)
    /\ R1 = 0 /\ R2 = 0
    /\ chain_q = <<>> /\ last_cov_q = RInt(0) /\ chain_cov_err = <<>>
    /\ dr = NoDR
    /\ adaptedAt = {} /\ history = 0
    /\ saves = <<>> /\ store = NoResults /\ result = NoResults

\* Lines 372-406: the quartiles are read from the sorted chain; the call
\* returns, or the read raises IndexError.
Densities ==
    /\ pc = "densities"
    /\ dens' = Quartiles(qChain)
    /\ pc' = dens'.status
    /\ UNCHANGED <<run, data, model, modelParams, DRAMParams, stream, pos,
                   draws, k, q, err, cov_q, cov_q_inv, cov_err, cov_err_inv,
                   prior, qBar, qCov, R1, R2, chain_q, last_cov_q,
                   chain_cov_err, dr, adaptedAt, history, saves, store,
                   result, qChain>>

DensitiesNext == Densities

DensitiesSpec == DensitiesInit /\ [][DensitiesNext]_vars

\* ============================================================ properties
\* An iteration of the present call has run.
Iterated == dr.draws > 0

\* The call has built its chain.
Sampling == pc \in {"loop", "returned"} \/ (pc = "fatal" /\ Iterated)

\* The rows of chain_q written so far.
Written == IF pc = "fatal" THEN 0 .. k ELSE 0 .. (k - 1)

\* lowerLimits <= c <= upperLimits
Within(c) == modelParams.lowerLimits <= c /\ c <= modelParams.upperLimits

\* C1: a stage-1 or stage-2 candidate below lowerLimits or above upperLimits
\* is never accepted, whatever the residuals, the residual covariance and
\* the uniform draw; when both candidates of an iteration are out of bounds
\* chain_q[k] is the state held before the iteration.
C1_OutOfBoundsNeverAccepted ==
    Iterated =>
        /\ ~Within(dr.q1) => ~dr.acc1 /\ chain_q[dr.k] \in {dr.q0, dr.q2}
        /\ dr.stage2 /\ ~Within(dr.q2) => ~dr.acc2 /\ chain_q[dr.k] \in {dr.q0, dr.q1}
        /\ ~Within(dr.q1) /\ dr.stage2 /\ ~Within(dr.q2) => chain_q[dr.k] = dr.q0

\* Both candidates of an iteration were out of bounds and the uniform draws
\* were the smallest there are.
C1_Witness ==
    /\ Iterated
    /\ ~Within(dr.q1)
    /\ dr.stage2
    /\ stream = [i \in 0 .. Period - 1 |-> 0]
    /\ ~Within(dr.q2)
    /\ chain_q[dr.k] = dr.q0

\* C2: the loop writes only rows k in [Mo, M); row 0 of a fresh run stays
\* the caller's initial vector and rows 0 .. Mo-1 of a resumed run stay the
\* supplied previous chain (chain_q and chain_cov_err), in the working chain
\* and in the returned one.
C2_InitialSegmentUntouched ==
    Sampling =>
        /\ run = 1 => chain_q[0] = modelParams.values
        /\ run = 2 =>
             \A i \in 0 .. Mo - 1 :
                /\ chain_q[i] = previousResults.res.chain_q[i]
                /\ chain_cov_err[i] = previousResults.res.chain_cov_err[i]
        /\ pc = "returned" =>
             /\ run = 1 => result.chain_q[0] = modelParams.values
             /\ run = 2 =>
                  \A i \in 0 .. Mo - 1 :
                     /\ result.chain_q[i] = previousResults.res.chain_q[i]
                     /\ result.chain_cov_err[i] = previousResults.res.chain_cov_err[i]

\* A resumed run has returned after moving away from the last previous row.
C2_Witness ==
    /\ pc = "returned"
    /\ run = 2
    /\ \E i \in Mo .. M - 1 : result.chain_q[i] # result.chain_q[Mo - 1]

\* C3: R1, R2, cov_q and cov_q_inv change only at the end of an iteration k
\* with k >= ko and (k + Mo) mod ko = 0; every other iteration leaves them
\* as they were at its start.
C3_AdaptationOnlyOnSchedule ==
    [][ pc = "loop" /\ <<R1, R2, cov_q, cov_q_inv>>' # <<R1, R2, cov_q, cov_q_inv>>
        => k >= 100 /\ (k + Mo) % 100 = 0 ]_vars

\* An adaptation has changed the step matrices and a later iteration ran.
C3_Witness ==
    /\ pc = "loop"
    /\ Iterated
    /\ adaptedAt # {}
    /\ dr.k \notin adaptedAt
    /\ R1 # Cholesky(InitialCov(modelParams.values))

\* C4: every iteration ends in exactly one of accept-stage-1 (chain_q[k] =
\* q1), accept-stage-2 (chain_q[k] = q2, only after stage 1 was rejected) and
\* reject-both (chain_q[k] = chain_q[k-1]) and records one row; the stage-2
\* candidate is drawn only when stage 1 was rejected; the returned chain has
\* M rows.
C4_ThreeOutcomesOneRow ==
    /\ Iterated =>
         /\ dr.q0 = chain_q[dr.k - 1]
         /\ \/ dr.acc1 /\ ~dr.acc2 /\ chain_q[dr.k] = dr.q1
            \/ ~dr.acc1 /\ dr.acc2 /\ chain_q[dr.k] = dr.q2
            \/ ~dr.acc1 /\ ~dr.acc2 /\ chain_q[dr.k] = chain_q[dr.k - 1]
         /\ dr.stage2 <=> ~dr.acc1
         /\ dr.draws = IF dr.acc1 THEN 2 ELSE 4
         /\ \A i \in dr.k + 1 .. M - 1 : chain_q[i] = 0
         /\ pc = "loop" => k = dr.k + 1
    /\ pc = "returned" => DOMAIN result.chain_q = 0 .. M - 1

\* A stage-2 candidate was accepted and recorded after stage 1 was rejected.
C4_Witness ==
    /\ Iterated
    /\ dr.acc2
    /\ dr.q2 # dr.q0
    /\ dr.q1 # dr.q2
    /\ chain_q[dr.k] = dr.q2

\* C5: when the set counts differ among xdata, ydata, fun, errFun and extra,
\* or the point counts differ among datasets, or a resumed run's previous
\* chain_q does not have Mo rows, the call fails in validation: no iteration
\* has run, no variate is drawn, no checkpoint is written, nothing returned.
C5_ValidationBeforeSampling ==
    LET unequalSets == \E i, j \in DOMAIN data.sets : data.sets[i] # data.sets[j]
        unequalPoints ==
            \E i, j \in DOMAIN data.points : \E a, b \in 1 .. 2 :
                data.points[i][a] # data.points[j][b]
        mismatch ==
            run = 2 /\ Cardinality(DOMAIN previousResults.res.chain_q) # Mo
        invalid == unequalSets \/ unequalPoints \/ mismatch
    IN  /\ invalid => pc \in {"called", "error"}
        /\ pc = "error" =>
             /\ invalid
             /\ ~Iterated
             /\ dr = NoDR
             /\ draws = 0
             /\ saves = <<>>
             /\ result = NoResults

\* A resume naming one row more than the previous chain has was refused.
C5_Witness ==
    /\ pc = "error"
    /\ run = 2
    /\ Mo = Cardinality(DOMAIN previousResults.res.chain_q) + 1

\* C6: the chain state is checkpointed every time the iteration counter
\* reaches a multiple of the caller's save interval numIterationsSave, and
\* once more after the last iteration; the final checkpoint is the last write
\* and holds the values the call returns.
C6_CheckpointEverySaveInterval ==
    /\ pc \in {"loop", "returned"} =>
         \A j \in Mo .. k - 1 :
            j % DRAMParams.numIterationsSave = 0 =>
                \E i \in 1 .. Len(saves) : saves[i].at = j /\ ~saves[i].final
    /\ pc = "returned" =>
         /\ saves # <<>>
         /\ saves[Len(saves)].final
         /\ store = result

\* C8: a candidate within bounds whose residual holds a NaN or an infinity
\* has acceptance probability 0, is never accepted and never becomes the
\* recorded state.
C8_NonFiniteResidualNeverAccepted ==
    Iterated =>
        /\ dr.bad1 => dr.alpha10 = Fin(0) /\ ~dr.acc1
        /\ dr.bad2 => dr.alpha210 = Fin(0) /\ ~dr.acc2

\* C9: every row stored in chain_q lies within the limits.
C9_EveryRowWithinLimits ==
    Sampling => \A i \in Written : Within(chain_q[i])

\* C9, amended: every candidate the loop accepts lies within the limits, so
\* when the rows the call starts from (the initial vector, or the previous
\* chain) lie within the limits every row stored in chain_q does.
C9_AcceptedWithinLimits ==
    /\ Iterated =>
         /\ dr.acc1 => Within(dr.q1)
         /\ dr.acc2 => Within(dr.q2)
    /\ Sampling =>
         ((\A i \in 0 .. Mo - 1 : Within(chain_q[i]))
             => \A i \in Written : Within(chain_q[i]))

\* A chain that started within its limits has moved, and has a candidate
\* outside the limits behind it.
C9_Witness ==
    /\ pc = "loop"
    /\ Iterated
    /\ \A i \in 0 .. Mo - 1 : Within(chain_q[i])
    /\ \E i \in Written : chain_q[i] # chain_q[0]
    /\ ~Within(dr.q1)

\* C10: at every iteration R2 = R1/5 and R1 = c * Cholesky(cov_q), with
\* c = 1 while no adaptation commit has happened in the chain's history and
\* c = sp afterwards, also at the start of a resumed run.
C10_StepMatricesFollowHistory ==
    pc = "loop" =>
        /\ R2 = R1 \div 5
        /\ R1 = IF history = 0 THEN Cholesky(cov_q)
                ELSE (Cholesky(cov_q) * 238) \div 100

\* C11: the last_cov_q returned and checkpointed is the proposal covariance
\* cov_q in effect when the run ends, also when the last iteration M-1 is an
\* adaptation iteration.
C11_LastCovIsFinalCov ==
    pc = "returned" =>
        /\ result.last_cov_q = cov_q
        /\ store.last_cov_q = cov_q

\* C12: in a fresh run, once iteration ko-1 is over, after every iteration
\* qBar is the arithmetic mean of the chain rows written so far and qCov
\* their sample covariance (divisor: the number of rows less one), in exact
\* arithmetic.
C12_RecursiveEqualsBatch ==
    run = 1 /\ pc \in {"loop", "returned"} /\ k >= 100 =>
        LET sum == SumRange(chain_q, 0, k)
            squares == SumRange([i \in 0 .. k - 1 |-> chain_q[i] * chain_q[i]], 0, k)
        IN  /\ qBar = Rat(sum, k)
            /\ qCov = Rat(k * squares - sum * sum, k * (k - 1))

\* A fresh run has updated its statistics recursively, on a chain that has
\* moved: the covariance is positive and the mean is not a chain value.
C12_Witness ==
    /\ run = 1
    /\ pc = "loop"
    /\ k > 100
    /\ \E i \in 1 .. k - 1 : chain_q[i] # chain_q[0]
    /\ qCov[1] > 0
    /\ qBar[2] > 1

\* C13: resuming is not stopping.  The first call of Mo iterations is what
\* an uninterrupted run does up to Mo, so the resumed call must start from
\* the state the first call ended in (best estimate, residuals, residual
\* covariance, proposal covariance, step matrices and, once they are in use,
\* running mean and covariance) and must adapt at the iterations where a
\* fresh run does.
C13_ResumeEqualsContinuing ==
    [][ /\ run = 2 /\ pc = "called" /\ pc' = "loop" =>
             /\ k' = k /\ q' = q /\ err' = err
             /\ cov_err' = cov_err /\ cov_err_inv' = cov_err_inv
             /\ cov_q' = cov_q /\ cov_q_inv' = cov_q_inv
             /\ R1' = R1 /\ R2' = R2
             /\ k >= 100 => qBar' = qBar /\ qCov' = qCov
        /\ run = 2 /\ pc = "loop" /\ cov_q' # cov_q => (k + 1) % 100 = 0
      ]_vars

\* C14: for every chain slice of n >= 1 rows the positions i1-1, i1, i3-1
\* and i3 with i1 = floor((n+1)/4) and i3 = floor(3(n+1)/4) are positions
\* 0 .. n-1 of the sorted chain with i1-1 < i1 <= i3-1 < i3, so the
\* interquartile range is computed without IndexError and without a
\* negative position wrapping around.
C14_QuartilePositionsValid ==
    dens.status # "none" =>
        /\ 0 <= dens.i1 - 1
        /\ dens.i1 - 1 < dens.i1
        /\ dens.i1 <= dens.i3 - 1
        /\ dens.i3 - 1 < dens.i3
        /\ dens.i3 <= dens.n - 1
        /\ dens.status = "returned"
        /\ ~dens.wrapped

====
